---- MODULE Spec2Model ----
(***************************************************************************)
(* singer-pathmatch: selection of the fields of a Singer catalog by an     *)
(* ordered list of git-style include/exclude patterns                      *)
(* (src/singer_pathmatch/main.py).                                         *)
(*                                                                         *)
(* Strings are sequences of one-character strings, so that strip(),        *)
(* startswith(), "/".join() and the wildcard match work on characters.     *)
(* A Python dict with optional keys is a function whose DOMAIN is the set  *)
(* of keys present; an insertion-ordered dict keyed by breadcrumb is a     *)
(* sequence of [breadcrumb, metadata] records with distinct breadcrumbs.   *)
(***************************************************************************)
EXTENDS Integers, Sequences, FiniteSets, TLC

VARIABLES
    catalog_file,            \* main's argument: the catalog document read by json.load
    patterns_file,           \* main's argument: [given, lines]; given = FALSE is None
    ignore_unused_patterns,  \* main's argument
    producer,                \* main's argument: which produce_* function is called
    pc,                      \* position in main: start, loaded, matched, raised, done
    catalog,                 \* main's local: the loaded catalog, mutated by produce_catalog
    patterns,                \* main's local: list(yield_patterns(...))
    matched,                 \* main's local, from match_catalog
    unmatched,               \* main's local, from match_catalog
    unused,                  \* main's local, from match_catalog
    outcomes,                \* match_catalog's (pattern, positive) per field, in walk order
    error,                   \* the exception main ended with: [type, args]
    out_file,                \* what has been written to out_file: [lines, json]
    run                      \* 1 for a run on the given catalog, 2 for a run on run 1's output

vars == <<catalog_file, patterns_file, ignore_unused_patterns, producer, pc, catalog,
          patterns, matched, unmatched, unused, outcomes, error, out_file, run>>

----------------------------------------------------------------------------
(* Strings                                                                 *)

\* the characters str.isspace() holds of, which str.strip() removes; one that
\* has no escape of its own is written as its Python escape and stands for the
\* one character
Whitespace ==
    { "\t", "\n", "\\x0b", "\f", "\r", "\\x1c", "\\x1d", "\\x1e", "\\x1f", " ",
      "\\x85", "\\xa0", "\\u1680", "\\u2000", "\\u2001", "\\u2002", "\\u2003",
      "\\u2004", "\\u2005", "\\u2006", "\\u2007", "\\u2008", "\\u2009", "\\u200a",
      "\\u2028", "\\u2029", "\\u202f", "\\u205f", "\\u3000" }

RECURSIVE lstrip(_)
lstrip(s) ==
    IF Len(s) > 0 /\ Head(s) \in Whitespace THEN lstrip(Tail(s)) ELSE s

RECURSIVE rstrip(_)
rstrip(s) ==
    IF Len(s) > 0 /\ s[Len(s)] \in Whitespace
    THEN rstrip(SubSeq(s, 1, Len(s) - 1))
    ELSE s

strip(s) == rstrip(lstrip(s))

startswith(s, c) == Len(s) > 0 /\ Head(s) = c

\* s[:1]
Prefix1(s) == IF Len(s) = 0 THEN <<>> ELSE <<Head(s)>>

\* "properties"
properties == <<"p", "r", "o", "p", "e", "r", "t", "i", "e", "s">>

\* "/".join(parts)
RECURSIVE join(_)
join(parts) ==
    IF Len(parts) = 0 THEN <<>>
    ELSE IF Len(parts) = 1 THEN Head(parts)
    ELSE Head(parts) \o <<"/">> \o join(Tail(parts))

\* the code point of a character, for the order sorted() puts strings in
Ord(c) ==
    CASE c = "\t" -> 9
      [] c = "\n" -> 10
      [] c = "\\x0b" -> 11
      [] c = "\f" -> 12
      [] c = "\r" -> 13
      [] c = "\\x1c" -> 28
      [] c = "\\x1d" -> 29
      [] c = "\\x1e" -> 30
      [] c = "\\x1f" -> 31
      [] c = " " -> 32
      [] c = "!" -> 33
      [] c = "#" -> 35
      [] c = "*" -> 42
      [] c = "/" -> 47
      [] c = "?" -> 63
      [] c = "a" -> 97
      [] c = "c" -> 99
      [] c = "e" -> 101
      [] c = "i" -> 105
      [] c = "o" -> 111
      [] c = "p" -> 112
      [] c = "r" -> 114
      [] c = "s" -> 115
      [] c = "t" -> 116
      [] c = "x" -> 120
      [] c = "y" -> 121
      [] c = "\\x85" -> 133
      [] c = "\\xa0" -> 160
      [] c = "\\u1680" -> 5760
      [] c = "\\u2000" -> 8192
      [] c = "\\u2001" -> 8193
      [] c = "\\u2002" -> 8194
      [] c = "\\u2003" -> 8195
      [] c = "\\u2004" -> 8196
      [] c = "\\u2005" -> 8197
      [] c = "\\u2006" -> 8198
      [] c = "\\u2007" -> 8199
      [] c = "\\u2008" -> 8200
      [] c = "\\u2009" -> 8201
      [] c = "\\u200a" -> 8202
      [] c = "\\u2028" -> 8232
      [] c = "\\u2029" -> 8233
      [] c = "\\u202f" -> 8239
      [] c = "\\u205f" -> 8287
      [] c = "\\u3000" -> 12288

RECURSIVE StrLeq(_, _)
StrLeq(s, t) ==
    IF Len(s) = 0 THEN TRUE
    ELSE IF Len(t) = 0 THEN FALSE
    ELSE IF Head(s) = Head(t) THEN StrLeq(Tail(s), Tail(t))
    ELSE Ord(Head(s)) < Ord(Head(t))

----------------------------------------------------------------------------
(* The wildcard matcher the patterns are compiled by (pathmatch's          *)
(* WildmatchPattern): the whole path must match; "?" and "*" do not cross  *)
(* a "/", a "**" that fills a whole path segment does, and "**/" also      *)
(* matches no segment at all.                                              *)

RECURSIVE Stars(_)
Stars(p) == IF Len(p) > 0 /\ Head(p) = "*" THEN 1 + Stars(Tail(p)) ELSE 0

NoSlash(t) == \A i \in 1..Len(t) : t[i] # "/"

\* seg: p starts the pattern or follows a "/"
RECURSIVE dowild(_, _, _)
dowild(p, t, seg) ==
    IF Len(p) = 0 THEN Len(t) = 0
    ELSE IF Head(p) = "*" THEN
        LET n == Stars(p)
            rest == SubSeq(p, n + 1, Len(p))
            match_slash == n >= 2 /\ seg /\ (Len(rest) = 0 \/ Head(rest) = "/")
        IN  \/ match_slash /\ Len(rest) > 0 /\ dowild(Tail(rest), t, TRUE)
            \/ \E k \in 0..Len(t) :
                  /\ match_slash \/ NoSlash(SubSeq(t, 1, k))
                  /\ dowild(rest, SubSeq(t, k + 1, Len(t)), FALSE)
    ELSE IF Head(p) = "?" THEN
        Len(t) > 0 /\ Head(t) # "/" /\ dowild(Tail(p), Tail(t), FALSE)
    ELSE
        Len(t) > 0 /\ Head(t) = Head(p) /\ dowild(Tail(p), Tail(t), Head(p) = "/")

\* WildmatchPattern(text): a new object; id stands for its identity
WildmatchPattern(text, id) == [id |-> id, pattern |-> text]

\* compiled.match(path)
match(compiled, path) == dowild(compiled.pattern, path, TRUE)

----------------------------------------------------------------------------
(* Records                                                                 *)

Field(stream_name, breadcrumb, path) ==
    [stream_name |-> stream_name, breadcrumb |-> breadcrumb, path |-> path]

FieldPattern(string, negation, compiled) ==
    [string |-> string, negation |-> negation, compiled |-> compiled]

\* Python's None where a FieldPattern is expected; no pattern has identity 0
None == FieldPattern(<<>>, FALSE, WildmatchPattern(<<>>, 0))

\* d.get(k, default)
Get(d, k, default) == IF k \in DOMAIN d THEN d[k] ELSE default

\* d.update({k: val})
Update(d, k, val) == [x \in DOMAIN d \cup {k} |-> IF x = k THEN val ELSE d[x]]

\* {} and {k: val}
EmptyDict == [x \in {} |-> FALSE]
Dict1(k, val) == [x \in {k} |-> val]

----------------------------------------------------------------------------
(* singer.metadata, as main.py uses it                                     *)

Breadcrumbs(stream_map) == {stream_map[i].breadcrumb : i \in 1..Len(stream_map)}

\* stream_map[breadcrumb] = props: an insertion-ordered dict keeps the place
\* of a key it already has
SetItem(stream_map, breadcrumb, props) ==
    IF breadcrumb \in Breadcrumbs(stream_map)
    THEN [i \in 1..Len(stream_map) |->
             IF stream_map[i].breadcrumb = breadcrumb
             THEN [breadcrumb |-> breadcrumb, metadata |-> props]
             ELSE stream_map[i]]
    ELSE Append(stream_map, [breadcrumb |-> breadcrumb, metadata |-> props])

\* stream_map.get(breadcrumb, {})
MapGet(stream_map, breadcrumb) ==
    IF breadcrumb \in Breadcrumbs(stream_map)
    THEN (CHOOSE e \in {stream_map[i] : i \in 1..Len(stream_map)} :
              e.breadcrumb = breadcrumb).metadata
    ELSE EmptyDict

\* metadata.to_map(raw_metadata): {tuple(md["breadcrumb"]): md["metadata"] for md in raw}
RECURSIVE to_map_from(_, _)
to_map_from(raw_metadata, acc) ==
    IF Len(raw_metadata) = 0 THEN acc
    ELSE to_map_from(Tail(raw_metadata),
                     SetItem(acc, Head(raw_metadata).breadcrumb, Head(raw_metadata).metadata))

to_map(raw_metadata) == to_map_from(raw_metadata, <<>>)

\* metadata.to_list(stream_map): one {"breadcrumb", "metadata"} entry per key, in order
to_list(stream_map) ==
    [i \in 1..Len(stream_map) |->
        [breadcrumb |-> stream_map[i].breadcrumb, metadata |-> stream_map[i].metadata]]

\* metadata.write(stream_map, breadcrumb, k, val)
write(stream_map, breadcrumb, k, val) ==
    IF breadcrumb \in Breadcrumbs(stream_map)
    THEN SetItem(stream_map, breadcrumb, Update(MapGet(stream_map, breadcrumb), k, val))
    ELSE SetItem(stream_map, breadcrumb, Dict1(k, val))

----------------------------------------------------------------------------
(* main.py                                                                 *)

make_path(stream_name, breadcrumb) ==
    join(<<stream_name>> \o (IF Len(breadcrumb) = 0 THEN <<>> ELSE Tail(breadcrumb)))

\* as matchable_inclusions, with automatic fields matchable in every stream
matchable_inclusions_both(stream_map) == {"available", "automatic"}

\* the matchable inclusions of a stream
matchable_inclusions(stream_map) ==
    IF Get(MapGet(stream_map, <<>>), "inclusion", "None") = "available"
    THEN {"available", "automatic"}
    ELSE {"available"}

\* as stream_fields, passing over the fields already selected
RECURSIVE stream_fields_unselected(_, _, _, _)
stream_fields_unselected(stream_name, stream_map, i, matchable) ==
    IF i > Len(stream_map) THEN <<>>
    ELSE LET breadcrumb == stream_map[i].breadcrumb
             field == stream_map[i].metadata
             further == stream_fields_unselected(stream_name, stream_map, i + 1, matchable)
         IN  IF Prefix1(breadcrumb) # <<properties>> THEN further
             ELSE IF Get(field, "inclusion", "None") \notin matchable THEN further
             ELSE IF "selected" \in DOMAIN field /\ field["selected"] = TRUE THEN further
             ELSE <<Field(stream_name, breadcrumb, make_path(stream_name, breadcrumb))>>
                      \o further

\* the inner loop of yield_available_fields: the fields of one stream
RECURSIVE stream_fields(_, _, _, _)
stream_fields(stream_name, stream_map, i, matchable) ==
    IF i > Len(stream_map) THEN <<>>
    ELSE LET breadcrumb == stream_map[i].breadcrumb
             field == stream_map[i].metadata
             further == stream_fields(stream_name, stream_map, i + 1, matchable)
         IN  IF Prefix1(breadcrumb) # <<properties>> THEN further
             ELSE IF Get(field, "inclusion", "None") \notin matchable THEN further
             ELSE <<Field(stream_name, breadcrumb, make_path(stream_name, breadcrumb))>>
                      \o further

\* yield_available_fields(catalog): [raise, fields]; a catalog without the
\* "streams" key, or a stream without the "stream" or the "metadata" key, ends
\* the walk with KeyError, after the fields of the streams before it
RECURSIVE walk_streams(_)
walk_streams(streams) ==
    IF Len(streams) = 0 THEN [raise |-> "None", fields |-> <<>>]
    ELSE LET stream == Head(streams)
         IN  IF "stream" \notin DOMAIN stream \/ "metadata" \notin DOMAIN stream
             THEN [raise |-> "KeyError", fields |-> <<>>]
             ELSE LET stream_map == to_map(stream.metadata)
                      here == stream_fields(stream.stream, stream_map, 1,
                                            matchable_inclusions(stream_map))
                      further == walk_streams(Tail(streams))
                  IN  [raise |-> further.raise, fields |-> here \o further.fields]

yield_available_fields(c) ==
    IF "streams" \notin DOMAIN c
    THEN [raise |-> "KeyError", fields |-> <<>>]
    ELSE walk_streams(c.streams)

RECURSIVE yield_patterns_from(_, _)
yield_patterns_from(strings, yielded) ==
    IF Len(strings) = 0 THEN yielded
    ELSE LET string == strip(Head(strings))
             negation == startswith(string, "!")
             compiled == IF negation
                         THEN WildmatchPattern(Tail(string), Len(yielded) + 1)
                         ELSE WildmatchPattern(string, Len(yielded) + 1)
         IN  IF startswith(string, "#")
             THEN yield_patterns_from(Tail(strings), yielded)
             ELSE yield_patterns_from(Tail(strings),
                                      Append(yielded, FieldPattern(string, negation, compiled)))

yield_patterns(strings) == yield_patterns_from(strings, <<>>)

\* as match_path_from, with the last matching pattern deciding whatever the
\* polarity it meets
RECURSIVE match_path_from_ungated(_, _, _, _, _)
match_path_from_ungated(pats, path, i, matching, positive) ==
    IF i > Len(pats) THEN [pattern |-> matching, positive |-> positive]
    ELSE IF match(pats[i].compiled, path)
         THEN match_path_from_ungated(pats, path, i + 1, pats[i], ~pats[i].negation)
         ELSE match_path_from_ungated(pats, path, i + 1, matching, positive)

\* the loop of match_path from pattern i on
RECURSIVE match_path_from(_, _, _, _, _)
match_path_from(pats, path, i, matching, positive) ==
    IF i > Len(pats) THEN [pattern |-> matching, positive |-> positive]
    ELSE IF match(pats[i].compiled, path) /\ pats[i].negation = positive
         THEN match_path_from(pats, path, i + 1, pats[i], ~positive)
         ELSE match_path_from(pats, path, i + 1, matching, positive)

match_path(pats, path) == match_path_from(pats, path, 1, None, FALSE)

\* the loop of match_catalog over the fields walked
RECURSIVE match_fields(_, _, _)
match_fields(pats, fields, acc) ==
    IF Len(fields) = 0 THEN acc
    ELSE LET field == Head(fields)
             r == match_path(pats, field.path)
         IN  match_fields(pats, Tail(fields),
                 [matched   |-> IF r.positive THEN Append(acc.matched, field) ELSE acc.matched,
                  unmatched |-> IF r.positive THEN acc.unmatched ELSE Append(acc.unmatched, field),
                  unused    |-> acc.unused \ {r.pattern},
                  outcomes  |-> Append(acc.outcomes, r)])

\* match_catalog(patterns, catalog): [raise, matched, unmatched, unused, outcomes]
match_catalog(pats, c) ==
    LET walk == yield_available_fields(c)
        start == [matched |-> <<>>, unmatched |-> <<>>,
                  unused |-> {pats[i] : i \in 1..Len(pats)}, outcomes |-> <<>>]
        r == match_fields(pats, walk.fields, start)
    IN  [raise |-> walk.raise, matched |-> r.matched, unmatched |-> r.unmatched,
         unused |-> r.unused, outcomes |-> r.outcomes]

\* the lines produce_matched and produce_unmatched write
path_lines(fields) == [i \in 1..Len(fields) |-> fields[i].path \o <<"\n">>]

produce_matched(c, m, u) == [catalog |-> c, lines |-> path_lines(m), json |-> <<>>]

produce_unmatched(c, m, u) == [catalog |-> c, lines |-> path_lines(u), json |-> <<>>]

RECURSIVE write_selected(_, _)
write_selected(stream_map, stream_matches) ==
    IF Len(stream_matches) = 0 THEN stream_map
    ELSE write_selected(write(stream_map, Head(stream_matches).breadcrumb, "selected", TRUE),
                        Tail(stream_matches))

\* d[k] = val
Assign(d, k, val) == [key \in DOMAIN d \cup {k} |-> IF key = k THEN val ELSE d[key]]

\* as annotate_stream, selecting every optional stream
annotate_stream_rootalways(stream, stream_matches) ==
    LET stream_map == write_selected(to_map(stream.metadata), stream_matches)
        rooted == IF Get(MapGet(stream_map, <<>>), "inclusion", "None") = "available"
                  THEN write(stream_map, <<>>, "selected", TRUE)
                  ELSE stream_map
    IN  Assign(stream, "metadata", to_list(rooted))

\* the body of produce_catalog's loop: the stream as it is left, its other
\* keys as they were
annotate_stream(stream, stream_matches) ==
    LET stream_map == write_selected(to_map(stream.metadata), stream_matches)
        rooted == IF Get(MapGet(stream_map, <<>>), "inclusion", "None") = "available"
                  THEN write(stream_map, <<>>, "selected", Len(stream_matches) > 0)
                  ELSE stream_map
    IN  Assign(stream, "metadata", to_list(rooted))

\* matches_by_stream[name]
matches_of(m, name) == SelectSeq(m, LAMBDA f : f.stream_name = name)

\* as produce_catalog, writing selected = False into the unmatched fields too
RECURSIVE write_deselected(_, _)
write_deselected(stream_map, fields) ==
    IF Len(fields) = 0 THEN stream_map
    ELSE write_deselected(write(stream_map, Head(fields).breadcrumb, "selected", FALSE),
                          Tail(fields))

produce_catalog_deselecting(c, m, u) ==
    LET deselected(stream) ==
            Assign(stream, "metadata",
                   to_list(write_deselected(to_map(stream.metadata),
                                            matches_of(u, stream.stream))))
        annotated == Assign(c, "streams", [i \in 1..Len(c.streams) |->
                         annotate_stream(deselected(c.streams[i]),
                                         matches_of(m, c.streams[i].stream))])
    IN  [catalog |-> annotated, lines |-> <<>>, json |-> <<annotated>>]

produce_catalog(c, m, u) ==
    LET annotated == Assign(c, "streams", [i \in 1..Len(c.streams) |->
                         annotate_stream(c.streams[i], matches_of(m, c.streams[i].stream))])
    IN  [catalog |-> annotated, lines |-> <<>>, json |-> <<annotated>>]

\* sorted(p.string for p in unused)
RECURSIVE sorted_strings(_)
sorted_strings(ps) ==
    IF ps = {} THEN <<>>
    ELSE LET least == CHOOSE p \in ps : \A q \in ps : StrLeq(p.string, q.string)
         IN  <<least.string>> \o sorted_strings(ps \ {least})

\* as raises_unused, without the flag
raises_unused_noflag(unused_set, ignore) == Cardinality(unused_set) > 0

\* main's test of the unused set (line 153)
raises_unused(unused_set, ignore) == Cardinality(unused_set) > 0 /\ ~ignore

----------------------------------------------------------------------------
(* Bounds and inputs                                                       *)

MaxLines == 2         \* raw lines of a patterns file, where the lines are compiled
MaxPathPatterns == 3  \* lines of a patterns file, where one path is matched
MaxFieldEntries == 2  \* metadata entries of a stream, where the fields are walked
MaxPatterns == 2      \* lines of a patterns file, in the runs of main
MaxEntries == 3       \* metadata entries of a catalog, in the runs of main

SeqsUpTo(S, n) == UNION {[1..k -> S] : k \in 0..n}

a == <<"a">>
s == <<"s">>
t == <<"t">>
x == <<"x">>
secret == <<"s", "e", "c", "r", "e", "t">>

Entry(breadcrumb, props) == [breadcrumb |-> breadcrumb, metadata |-> props]
Stream(name, raw_metadata) == [stream |-> name, metadata |-> raw_metadata]
Catalog(streams) == [streams |-> streams]
Given(lines) == [given |-> TRUE, lines |-> lines]
NoPatternsFile == [given |-> FALSE, lines |-> <<>>]

Producers == {"produce_catalog", "produce_matched", "produce_unmatched"}
NoError == [type |-> "None", args |-> <<>>]

\* the state main starts in, whatever its arguments
Locals ==
    /\ pc = "start"
    /\ catalog = Catalog(<<>>)
    /\ patterns = <<>>
    /\ matched = <<>>
    /\ unmatched = <<>>
    /\ unused = {}
    /\ outcomes = <<>>
    /\ error = NoError
    /\ out_file = [lines |-> <<>>, json |-> <<>>]
    /\ run = 1

\* raw lines with blanks, comments, negations and surrounding whitespace
RawLines ==
    { <<>>, <<" ">>, <<"\n">>, <<"#">>, <<"#", "a">>, <<" ", "\f", "#", "a", "\n">>,
      <<"\\xa0", "a", "/", "s", "\\x0b">>,
      <<"!", "a", "/", "s">>, <<" ", "!", "a", "/", "*", "\n">>, <<"!", " ", "a">>,
      <<"a", "/", "*", "\n">>, <<"a", " ", "#">>, <<"*", "*">> }

InitPatterns ==
    /\ catalog_file = Catalog(<<>>)
    /\ patterns_file \in {Given(lines) : lines \in SeqsUpTo(RawLines, MaxLines)}
    /\ ignore_unused_patterns = FALSE
    /\ producer = "produce_catalog"
    /\ Locals

\* pattern lines over the fields of stream a
PathLines ==
    { <<"a", "/", "*">>, <<"!", "a", "/", "*">>, <<"a", "/">> \o secret,
      <<"!", "a", "/">> \o secret, <<"*", "*">>, <<"a", "/", "?">> }

InitPath ==
    /\ catalog_file \in
          {Catalog(<<Stream(a, <<Entry(<<properties, name>>, [inclusion |-> "available"])>>)>>) :
              name \in {secret, t}}
    /\ patterns_file \in {Given(lines) : lines \in SeqsUpTo(PathLines, MaxPathPatterns)}
    /\ ignore_unused_patterns = FALSE
    /\ producer = "produce_catalog"
    /\ Locals

\* metadata entries of every inclusion, at the root, at fields and elsewhere;
\* <<properties, <<"s", "/", "t">>>> is the field named "s/t" and
\* <<properties, s, t>> the breadcrumb of three segments
FieldBreadcrumbs ==
    { <<>>, <<properties, s>>, <<properties, s, t>>, <<properties, <<"s", "/", "t">>>>,
      <<x, s>> }

FieldProps ==
    { [inclusion |-> "available"], [inclusion |-> "automatic"],
      [inclusion |-> "unsupported"], EmptyDict }

FieldEntries == {Entry(b, p) : b \in FieldBreadcrumbs, p \in FieldProps}

InitFields ==
    /\ catalog_file \in
          {[version |-> a]} \cup
          UNION { { Catalog(<<Stream(a, m)>>),
                    Catalog(<<Stream(a, m), [stream |-> x]>>),
                    Catalog(<<[stream |-> x], Stream(a, m)>>),
                    Catalog(<<[metadata |-> m]>>) } :
                  m \in SeqsUpTo(FieldEntries, MaxFieldEntries) }
    /\ patterns_file \in {NoPatternsFile, Given(<<<<"a", "/", "s">>>>)}
    /\ ignore_unused_patterns = FALSE
    /\ producer = "produce_catalog"
    /\ Locals

\* the catalogs of the runs of main, with stream names unique as in a Singer
\* catalog and, in some, a key besides those main reads (version in the
\* catalog, tap_stream_id in stream x): stream x may have an optional root
\* already selected, stream y a
\* root that is not optional; each may have an available field and an
\* automatic one already deselected
y == <<"y">>

MainFieldEntries ==
    { Entry(<<properties, s>>, [inclusion |-> "available"]),
      Entry(<<properties, t>>, [inclusion |-> "automatic", selected |-> FALSE]) }

MainEntriesX ==
    {Entry(<<>>, [inclusion |-> "available", selected |-> TRUE])} \cup MainFieldEntries

MainEntriesY ==
    {Entry(<<>>, [inclusion |-> "automatic"])} \cup MainFieldEntries

StreamX(raw_metadata) == [stream |-> x, tap_stream_id |-> x, metadata |-> raw_metadata]

MainCatalogs ==
    {Catalog(<<>>)} \cup
    UNION { {[version |-> a, streams |-> <<StreamX(mx)>>]} \cup
            {Catalog(<<StreamX(mx), Stream(y, my)>>) :
                my \in SeqsUpTo(MainEntriesY, MaxEntries - Len(mx))} :
            mx \in SeqsUpTo(MainEntriesX, MaxEntries) }

MainLines == { <<"x", "/", "*">>, <<"y", "/", "*">>, <<"!", "x", "/", "s">> }

Init ==
    /\ catalog_file \in MainCatalogs
    /\ patterns_file \in
          {NoPatternsFile} \cup {Given(lines) : lines \in SeqsUpTo(MainLines, MaxPatterns)}
    /\ ignore_unused_patterns \in BOOLEAN
    /\ producer \in Producers
    /\ Locals

----------------------------------------------------------------------------
(* main, statement by statement                                            *)

\* lines 145-150: json.load and list(yield_patterns(...))
Load ==
    /\ pc = "start"
    /\ catalog' = catalog_file
    /\ patterns' = yield_patterns(IF patterns_file.given
                                  THEN patterns_file.lines
                                  ELSE <<<<"*", "*">>>>)
    /\ pc' = "loaded"
    /\ UNCHANGED <<catalog_file, patterns_file, ignore_unused_patterns, producer,
                   matched, unmatched, unused, outcomes, error, out_file, run>>

\* line 151: match_catalog, or the KeyError that leaves it
MatchCatalog ==
    /\ pc = "loaded"
    /\ LET r == match_catalog(patterns, catalog)
       IN  IF r.raise = "None"
           THEN /\ matched' = r.matched
                /\ unmatched' = r.unmatched
                /\ unused' = r.unused
                /\ outcomes' = r.outcomes
                /\ pc' = "matched"
                /\ error' = error
           ELSE /\ error' = [type |-> r.raise, args |-> <<>>]
                /\ pc' = "raised"
                /\ UNCHANGED <<matched, unmatched, unused, outcomes>>
    /\ UNCHANGED <<catalog_file, patterns_file, ignore_unused_patterns, producer,
                   catalog, patterns, out_file, run>>

\* lines 153-157
RaiseUnused ==
    /\ pc = "matched"
    /\ raises_unused(unused, ignore_unused_patterns)
    /\ error' = [type |-> "UnusedPatternsError", args |-> sorted_strings(unused)]
    /\ pc' = "raised"
    /\ UNCHANGED <<catalog_file, patterns_file, ignore_unused_patterns, producer,
                   catalog, patterns, matched, unmatched, unused, outcomes, out_file, run>>

\* line 159, by the producer called: [catalog, lines, json] is the catalog as the
\* producer leaves it and what it writes
ProduceCatalog ==
    /\ pc = "matched"
    /\ ~raises_unused(unused, ignore_unused_patterns)
    /\ producer = "produce_catalog"
    /\ LET r == produce_catalog(catalog, matched, unmatched)
       IN  /\ catalog' = r.catalog
           /\ out_file' = [lines |-> out_file.lines \o r.lines,
                           json |-> out_file.json \o r.json]
    /\ pc' = "done"
    /\ UNCHANGED <<catalog_file, patterns_file, ignore_unused_patterns, producer,
                   patterns, matched, unmatched, unused, outcomes, error, run>>

ProduceMatched ==
    /\ pc = "matched"
    /\ ~raises_unused(unused, ignore_unused_patterns)
    /\ producer = "produce_matched"
    /\ LET r == produce_matched(catalog, matched, unmatched)
       IN  /\ catalog' = r.catalog
           /\ out_file' = [lines |-> out_file.lines \o r.lines,
                           json |-> out_file.json \o r.json]
    /\ pc' = "done"
    /\ UNCHANGED <<catalog_file, patterns_file, ignore_unused_patterns, producer,
                   patterns, matched, unmatched, unused, outcomes, error, run>>

ProduceUnmatched ==
    /\ pc = "matched"
    /\ ~raises_unused(unused, ignore_unused_patterns)
    /\ producer = "produce_unmatched"
    /\ LET r == produce_unmatched(catalog, matched, unmatched)
       IN  /\ catalog' = r.catalog
           /\ out_file' = [lines |-> out_file.lines \o r.lines,
                           json |-> out_file.json \o r.json]
    /\ pc' = "done"
    /\ UNCHANGED <<catalog_file, patterns_file, ignore_unused_patterns, producer,
                   patterns, matched, unmatched, unused, outcomes, error, run>>

\* the catalog written by a catalog-mode run is read by a second run of main,
\* with the same patterns
Rerun ==
    /\ pc = "done"
    /\ producer = "produce_catalog"
    /\ run = 1
    /\ catalog_file' = out_file.json[1]
    /\ run' = 2
    /\ pc' = "start"
    /\ catalog' = Catalog(<<>>)
    /\ patterns' = <<>>
    /\ matched' = <<>>
    /\ unmatched' = <<>>
    /\ unused' = {}
    /\ outcomes' = <<>>
    /\ out_file' = [lines |-> <<>>, json |-> <<>>]
    /\ UNCHANGED <<patterns_file, ignore_unused_patterns, producer, error>>

NextPatterns == Load

NextMatch == Load \/ MatchCatalog

Next ==
    \/ Load
    \/ MatchCatalog
    \/ RaiseUnused
    \/ ProduceCatalog
    \/ ProduceMatched
    \/ ProduceUnmatched
    \/ Rerun

SpecPatterns == InitPatterns /\ [][NextPatterns]_vars

SpecPath == InitPath /\ [][NextMatch]_vars

SpecFields == InitFields /\ [][NextMatch]_vars

Spec == Init /\ [][Next]_vars

----------------------------------------------------------------------------
(* What the claims speak of, said without the functions above              *)

Range(f) == {f[i] : i \in DOMAIN f}

Odd(n) == n % 2 = 1

Max(S) == CHOOSE n \in S : \A m \in S : m <= n

\* the metadata a raw list holds for a breadcrumb: that of its last entry
LastProps(raw, b) == raw[Max({i \in 1..Len(raw) : raw[i].breadcrumb = b})].metadata

RawBreadcrumbs(raw) == {raw[i].breadcrumb : i \in 1..Len(raw)}

PropsOf(raw, b) == IF b \in RawBreadcrumbs(raw) THEN LastProps(raw, b) ELSE EmptyDict

InclusionOf(raw, b) == Get(PropsOf(raw, b), "inclusion", "None")

\* the matchable set of the spec
MatchableSet(raw) ==
    IF InclusionOf(raw, <<>>) = "available" THEN {"available", "automatic"} ELSE {"available"}

Eligible(raw, b) ==
    /\ b \in RawBreadcrumbs(raw)
    /\ Len(b) >= 1
    /\ b[1] = properties
    /\ InclusionOf(raw, b) \in MatchableSet(raw)

\* the eligible fields of a catalog whose streams all have metadata, as
\* <<stream name, breadcrumb>> pairs
EligibleFields(c) ==
    UNION { { <<c.streams[i].stream, b>> : b \in {bb \in RawBreadcrumbs(c.streams[i].metadata) :
                                                     Eligible(c.streams[i].metadata, bb)} } :
            i \in 1..Len(c.streams) }

PathOf(pair) == join(<<pair[1]>> \o Tail(pair[2]))

Walked == matched \o unmatched

FieldsOf(fields) == {<<fields[i].stream_name, fields[i].breadcrumb>> : i \in 1..Len(fields)}

PathsOf(fields) == {fields[i].path : i \in 1..Len(fields)}

Strings(pats) == [i \in 1..Len(pats) |-> pats[i].string]

\* the patterns applied to a path: those that match it and meet the polarity
\* that the patterns applied before them have left
AppliedTo(pats, path) ==
    CHOOSE A \in SUBSET (1..Len(pats)) :
        \A i \in 1..Len(pats) :
            i \in A <=> /\ match(pats[i].compiled, path)
                        /\ pats[i].negation = Odd(Cardinality({j \in A : j < i}))

HasSelected(props, b) == "selected" \in DOMAIN props /\ props["selected"] = b

SameDict(d, e) == DOMAIN d = DOMAIN e /\ \A k \in DOMAIN d : d[k] = e[k]

\* the same keys, and the same values but at key
SameBut(d, e, key) == DOMAIN d = DOMAIN e /\ \A k \in DOMAIN d \ {key} : d[k] = e[k]

SameButSelected(d, e) ==
    /\ DOMAIN d \ {"selected"} = DOMAIN e \ {"selected"}
    /\ \A k \in DOMAIN d \ {"selected"} : d[k] = e[k]

\* the fields and roots of a catalog that carry selected = b
Annotated(c, b) ==
    UNION { { <<c.streams[i].stream, bc>> :
                bc \in {bb \in RawBreadcrumbs(c.streams[i].metadata) :
                           HasSelected(PropsOf(c.streams[i].metadata, bb), b)} } :
            i \in 1..Len(c.streams) }

CatalogMode == pc = "done" /\ producer = "produce_catalog"

ExampleToggle == << <<"a", "/", "*">>, <<"!", "a", "/">> \o secret, <<"a", "/", "*">> >>

----------------------------------------------------------------------------
(* The claims                                                              *)

\* C1: match_path applies a pattern only when it matches the path and its
\* negation equals the current polarity; the polarity returned is true iff an
\* odd number of patterns were applied and the pattern returned is the last
\* applied one, none if none was; for ["a/*", "!a/secret", "a/*"] and
\* "a/secret" that is polarity true with the third pattern, not the first.
C1_MatchPathToggle ==
    pc = "matched" =>
        LET fields == yield_available_fields(catalog).fields
        IN  /\ Len(outcomes) = Len(fields)
            /\ \A j \in 1..Len(outcomes) :
                  LET A == AppliedTo(patterns, fields[j].path)
                  IN  /\ outcomes[j].positive = Odd(Cardinality(A))
                      /\ outcomes[j].pattern = IF A = {} THEN None ELSE patterns[Max(A)]
                      /\ (Strings(patterns) = ExampleToggle
                              /\ fields[j].path = <<"a", "/">> \o secret)
                         => /\ outcomes[j].positive
                            /\ outcomes[j].pattern = patterns[3]
                            /\ outcomes[j].pattern # patterns[1]

C1_Witness ==
    /\ pc = "matched"
    /\ Strings(patterns) = ExampleToggle
    /\ Len(outcomes) = 1
    /\ matched[1].path = <<"a", "/">> \o secret
    /\ outcomes[1].pattern = patterns[3]

\* C2: main raises UnusedPatternsError exactly when the unused set is not
\* empty after match_catalog and ignore_unused_patterns is false; the error
\* carries the unused strings sorted, nothing is written and the catalog is
\* as loaded; otherwise the producer chosen is called and nothing is raised.
SortedStringsOf(args, ps) ==
    /\ Len(args) = Cardinality(ps)
    /\ \A i \in 1..Len(args) - 1 : StrLeq(args[i], args[i + 1])
    /\ \A p \in ps :
          Cardinality({i \in 1..Len(args) : args[i] = p.string})
              = Cardinality({q \in ps : q.string = p.string})

C2_UnusedPatternsError ==
    /\ pc = "matched" =>
          ENABLED RaiseUnused <=> (unused # {} /\ ~ignore_unused_patterns)
    /\ pc = "raised" =>
          /\ error.type = "UnusedPatternsError"
          /\ unused # {}
          /\ ~ignore_unused_patterns
          /\ SortedStringsOf(error.args, unused)
          /\ out_file = [lines |-> <<>>, json |-> <<>>]
          /\ catalog = catalog_file
    /\ pc = "done" =>
          /\ unused = {} \/ ignore_unused_patterns
          /\ error = NoError
          /\ producer = "produce_catalog" => out_file = [lines |-> <<>>, json |-> <<catalog>>]
          /\ producer = "produce_matched" =>
                out_file = [lines |-> [i \in 1..Len(matched) |-> matched[i].path \o <<"\n">>],
                            json |-> <<>>]
          /\ producer = "produce_unmatched" =>
                out_file = [lines |-> [i \in 1..Len(unmatched) |-> unmatched[i].path \o <<"\n">>],
                            json |-> <<>>]

C2_Witness ==
    /\ pc = "raised"
    /\ patterns_file = Given(<< <<"x", "/", "*">>, <<"y", "/", "*">> >>)
    /\ PathsOf(Walked) # {}
    /\ \A f \in Range(Walked) : f.stream_name = x
    /\ error = [type |-> "UnusedPatternsError", args |-> << <<"y", "/", "*">> >>]

\* C3: every pattern in the unused set of match_catalog has a matcher that
\* matches the path of no eligible field, so UnusedPatternsError is raised
\* only when some pattern matched no field.
C3_UnusedMatchedNothing ==
    pc \in {"matched", "raised", "done"} =>
        \A p \in unused : \A f \in Range(Walked) : ~match(p.compiled, f.path)

\* C4: yield_patterns skips every line that is empty after stripping or starts
\* with "#" after stripping; every other line gives one pattern, in order,
\* negated iff the stripped line starts with "!", compiled from the text
\* after the "!".
C4_Kept(lines) ==
    SelectSeq([i \in 1..Len(lines) |-> strip(lines[i])],
              LAMBDA l : ~(Len(l) = 0 \/ l[1] = "#"))

C4_BlankAndCommentLinesSkipped ==
    pc = "loaded" =>
        LET kept == C4_Kept(patterns_file.lines)
        IN  /\ Len(patterns) = Len(kept)
            /\ \A i \in 1..Len(kept) :
                  /\ patterns[i].string = kept[i]
                  /\ patterns[i].negation = (kept[i][1] = "!")
                  /\ patterns[i].compiled.pattern =
                        IF kept[i][1] = "!" THEN Tail(kept[i]) ELSE kept[i]

\* C5: matched and unmatched partition the eligible fields by path: their
\* paths are the eligible paths, none omitted, and no path appears twice
\* across the two lists.
C5_PartitionByPath ==
    pc = "matched" =>
        /\ PathsOf(Walked) = {PathOf(pair) : pair \in EligibleFields(catalog)}
        /\ \A i, j \in 1..Len(Walked) : Walked[i].path = Walked[j].path => i = j

\* C6: a metadata entry is yielded iff its breadcrumb starts with
\* "properties" and its inclusion is in the matchable set of its stream,
\* {"available"}, with "automatic" added iff the root inclusion is
\* "available"; so an automatic field of a stream whose root is not available,
\* a root entry and an unsupported field are in neither list.
C6_EligibleFields ==
    pc = "matched" =>
        /\ FieldsOf(Walked) = EligibleFields(catalog)
        /\ \A f \in Range(Walked) :
              LET raw == (CHOOSE st \in Range(catalog.streams) :
                              st.stream = f.stream_name).metadata
              IN  /\ f.breadcrumb # <<>>
                  /\ f.breadcrumb[1] = properties
                  /\ InclusionOf(raw, f.breadcrumb) # "unsupported"
                  /\ InclusionOf(raw, f.breadcrumb) = "automatic"
                        => InclusionOf(raw, <<>>) = "available"
                  /\ f.path = make_path(f.stream_name, f.breadcrumb)

C6_Witness ==
    /\ pc = "matched"
    /\ \E f \in Range(Walked) :
          InclusionOf(catalog.streams[1].metadata, f.breadcrumb) = "automatic"
    /\ Len(catalog.streams[1].metadata) > Cardinality(FieldsOf(Walked))

\* C7: after produce_catalog the root of a stream whose root inclusion is
\* "available" has selected = true iff the stream had a matched field, false
\* if it had none; the root of any other stream gets no selected key.
C7_StreamSelected ==
    CatalogMode =>
        /\ Len(catalog.streams) = Len(catalog_file.streams)
        /\ \A i \in 1..Len(catalog.streams) :
              LET before == catalog_file.streams[i].metadata
                  after == catalog.streams[i].metadata
                  name == catalog_file.streams[i].stream
                  some == \E f \in Range(matched) : f.stream_name = name
              IN  IF InclusionOf(before, <<>>) = "available"
                  THEN HasSelected(PropsOf(after, <<>>), some)
                  ELSE /\ SameDict(PropsOf(after, <<>>), PropsOf(before, <<>>))
                       /\ <<>> \in RawBreadcrumbs(after) <=> <<>> \in RawBreadcrumbs(before)

C7_Witness ==
    /\ CatalogMode
    /\ run = 1
    /\ Len(catalog.streams) = 2
    /\ HasSelected(PropsOf(catalog.streams[1].metadata, <<>>), FALSE)
    /\ HasSelected(PropsOf(catalog_file.streams[1].metadata, <<>>), TRUE)
    /\ \E f \in Range(matched) : f.stream_name = y
    /\ InclusionOf(catalog.streams[2].metadata, <<>>) = "automatic"
    /\ "selected" \notin DOMAIN PropsOf(catalog.streams[2].metadata, <<>>)

\* C8: a second catalog-mode run, on the catalog the first run wrote and with
\* the same patterns, leaves every selected annotation of a stream root or
\* field as the first run left it.
C8_Idempotent ==
    (CatalogMode /\ run = 2) =>
        /\ Annotated(catalog, TRUE) = Annotated(catalog_file, TRUE)
        /\ Annotated(catalog, FALSE) = Annotated(catalog_file, FALSE)

C8_Witness ==
    /\ CatalogMode
    /\ run = 2
    /\ matched # <<>>
    /\ unmatched # <<>>
    /\ \E pair \in Annotated(catalog, TRUE) : pair[2] # <<>>
    /\ \E pair \in Annotated(catalog, FALSE) : pair[2] = <<>>

\* C9: produce_catalog changes nothing but selected, set to true at the
\* matched fields and written at the available roots: every other entry keeps
\* its metadata, a selected it had included, and no other property changes.
C9_Frame ==
    CatalogMode =>
        /\ SameBut(catalog, catalog_file, "streams")
        /\ Len(catalog.streams) = Len(catalog_file.streams)
        /\ \A i \in 1..Len(catalog.streams) :
              LET before == catalog_file.streams[i].metadata
                  after == catalog.streams[i].metadata
                  name == catalog_file.streams[i].stream
              IN  /\ SameBut(catalog.streams[i], catalog_file.streams[i], "metadata")
                  /\ RawBreadcrumbs(after) = RawBreadcrumbs(before)
                  /\ \A b \in RawBreadcrumbs(before) :
                        /\ SameButSelected(PropsOf(after, b), PropsOf(before, b))
                        /\ <<name, b>> \in FieldsOf(matched)
                              => HasSelected(PropsOf(after, b), TRUE)
                        /\ (/\ <<name, b>> \notin FieldsOf(matched)
                            /\ ~(b = <<>> /\ InclusionOf(before, <<>>) = "available"))
                              => SameDict(PropsOf(after, b), PropsOf(before, b))

C9_Witness ==
    /\ CatalogMode
    /\ run = 1
    /\ Len(catalog.streams) = 2
    /\ "tap_stream_id" \in DOMAIN catalog.streams[1]
    /\ matched # <<>>
    /\ \E f \in Range(unmatched) :
          LET raw == (CHOOSE st \in Range(catalog.streams) :
                          st.stream = f.stream_name).metadata
          IN  HasSelected(PropsOf(raw, f.breadcrumb), FALSE)

\* C10: yield_available_fields, and so match_catalog, never raises for a
\* catalog or a stream that lacks expected keys, a stream with no metadata
\* among them: the stream gives no fields and the walk goes on.
C10_MissingKeysTolerated ==
    pc \notin {"start", "loaded"} =>
        /\ pc = "matched"
        /\ error = NoError
        /\ \A f \in Range(Walked) :
              \E st \in Range(catalog.streams) :
                  /\ "metadata" \in DOMAIN st
                  /\ "stream" \in DOMAIN st
                  /\ st.stream = f.stream_name

====
